---- MODULE Spec2Model ----
(***************************************************************************)
(* Model of Data.py: the appointment pipeline                              *)
(*   is_valid_indian_phone_number, calculate_age, the loop body of         *)
(*   process_json_data, the DataFrame it returns and                       *)
(*   generate_aggregated_data.                                             *)
(*                                                                         *)
(* Python values are tagged records, so that values of different Python    *)
(* types can be compared: None, bool, int, str (a sequence of one-char     *)
(* strings), list, dict (a function from key names to values; a key that   *)
(* is missing is not in its DOMAIN) and the float NaN that                 *)
(* Series.explode() puts in place of an empty list.                        *)
(*                                                                         *)
(* Line 96 (a print whose f-string is not closed) and the indentation of   *)
(* lines 116-117 do not parse as they stand; the model reads line 96 as    *)
(* the diagnostic print it is and lines 116-117 as the end of              *)
(* process_json_data, after the loop.                                      *)
(***************************************************************************)
EXTENDS Integers, Sequences, FiniteSets, TLC

VARIABLES pc, arg, ret, err, today, processed_data, dataframe, aggregated_data

vars == <<pc, arg, ret, err, today, processed_data, dataframe, aggregated_data>>

(***************************************************************************)
(* Python values                                                           *)
(***************************************************************************)
None == [t |-> "None"]
NaN == [t |-> "float_nan"]
PyBool(b) == [t |-> "bool", b |-> b]
PyInt(n) == [t |-> "int", n |-> n]
PyStr(s) == [t |-> "str", s |-> s]
PyList(l) == [t |-> "list", l |-> l]
PyDict(d) == [t |-> "dict", d |-> d]

EmptyMap == [k \in {} |-> None]

\* dict.get(key): the value, or None when the key is missing
Get(d, key) == IF key \in DOMAIN d THEN d[key] ELSE None

\* dict.get(key, default)
GetDefault(d, key, default) == IF key \in DOMAIN d THEN d[key] ELSE default

Digits == {"0", "1", "2", "3", "4", "5", "6", "7", "8", "9"}

DigitValue(c) ==
  CASE c = "0" -> 0 [] c = "1" -> 1 [] c = "2" -> 2 [] c = "3" -> 3 [] c = "4" -> 4
    [] c = "5" -> 5 [] c = "6" -> 6 [] c = "7" -> 7 [] c = "8" -> 8 [] c = "9" -> 9

\* str.startswith(prefix)
StartsWith(s, prefix) ==
  /\ Len(s) >= Len(prefix)
  /\ SubSeq(s, 1, Len(prefix)) = prefix

(***************************************************************************)
(* is_valid_indian_phone_number                                            *)
(***************************************************************************)
PhoneLength == 10

\* ''.join(c for c in phone_number if c.isdigit())
RECURSIVE JoinDigits(_)
JoinDigits(s) ==
  IF s = <<>> THEN <<>>
  ELSE IF Head(s) \in Digits THEN <<Head(s)>> \o JoinDigits(Tail(s))
       ELSE JoinDigits(Tail(s))

\* the mutant asks for ten digits and no prefix
is_valid_indian_phone_number_TenDigits(phone_number) ==
  IF phone_number = None THEN FALSE
  ELSE Len(JoinDigits(phone_number.s)) = PhoneLength

\* the argument is None or a str; the result is a Python bool
is_valid_indian_phone_number(phone_number) ==
  IF phone_number = None THEN FALSE
  ELSE LET digits == JoinDigits(phone_number.s)
       IN /\ Len(digits) = PhoneLength
          /\ \/ StartsWith(digits, <<"9", "1">>)
             \/ StartsWith(digits, <<"+", "9", "1">>)

(***************************************************************************)
(* calculate_age                                                           *)
(***************************************************************************)
Whitespace == {" "}

\* birth_date.split('-')[0]: the characters before the first '-'
RECURSIVE FirstSegment(_)
FirstSegment(s) ==
  IF s = <<>> \/ Head(s) = "-" THEN <<>>
  ELSE <<Head(s)>> \o FirstSegment(Tail(s))

RECURSIVE LStrip(_)
LStrip(s) ==
  IF s # <<>> /\ Head(s) \in Whitespace THEN LStrip(Tail(s)) ELSE s

RECURSIVE RStrip(_)
RStrip(s) ==
  IF s # <<>> /\ s[Len(s)] \in Whitespace THEN RStrip(SubSeq(s, 1, Len(s) - 1)) ELSE s

\* the digits of an int literal, read left to right; a single '_' may stand
\* between two digits. prev is "start", "digit" or "underscore".
RECURSIVE ScanInt(_, _, _)
ScanInt(u, acc, prev) ==
  IF u = <<>> THEN [ok |-> prev = "digit", n |-> acc]
  ELSE IF Head(u) \in Digits
       THEN ScanInt(Tail(u), acc * 10 + DigitValue(Head(u)), "digit")
       ELSE IF Head(u) = "_" /\ prev = "digit"
            THEN ScanInt(Tail(u), acc, "underscore")
            ELSE [ok |-> FALSE, n |-> 0]

\* int(s) of a str: ok is FALSE where Python raises ValueError
ParseInt(s) ==
  LET stripped == LStrip(RStrip(s))
      signed == stripped # <<>> /\ Head(stripped) \in {"+", "-"}
      negative == stripped # <<>> /\ Head(stripped) = "-"
      r == ScanInt(IF signed THEN Tail(stripped) ELSE stripped, 0, "start")
  IN [ok |-> r.ok, n |-> IF negative THEN 0 - r.n ELSE r.n]

\* the mutant lets the ValueError through
calculate_age_NoExcept(birth_date, year) ==
  IF birth_date = None THEN [raised |-> "", value |-> None]
  ELSE LET parsed == ParseInt(FirstSegment(birth_date.s))
       IN IF parsed.ok THEN [raised |-> "", value |-> PyInt(year - parsed.n)]
          ELSE [raised |-> "ValueError", value |-> None]

\* the argument is None or a str; year is date.today().year
calculate_age(birth_date, year) ==
  IF birth_date = None THEN [raised |-> "", value |-> None]
  ELSE LET parsed == ParseInt(FirstSegment(birth_date.s))
       IN IF parsed.ok THEN [raised |-> "", value |-> PyInt(year - parsed.n)]
          ELSE [raised |-> "", value |-> None]

(***************************************************************************)
(* process_json_data: the body of the loop over the items                  *)
(***************************************************************************)
male == PyStr(<<"m", "a", "l", "e">>)
female == PyStr(<<"f", "e", "m", "a", "l", "e">>)
others == PyStr(<<"o", "t", "h", "e", "r", "s">>)

\* the mutant leaves the source code of the gender in place when it is neither
TransformGender_Keep(gender) ==
  IF gender = PyStr(<<"M">>) THEN male
  ELSE IF gender = PyStr(<<"F">>) THEN female ELSE gender

TransformGender(gender) ==
  IF gender = PyStr(<<"M">>) THEN male
  ELSE IF gender = PyStr(<<"F">>) THEN female ELSE others

\* the mutant keeps whatever the source holds
CoerceMedicines_Keep(medicines) == medicines

\* if not isinstance(medicines, list): medicines = []
CoerceMedicines(medicines) ==
  IF medicines.t # "list" THEN PyList(<<>>) ELSE medicines

\* sha256(s.encode('utf-8')).hexdigest(): a str that the input determines; the
\* 64 hexadecimal characters are not computed, the digest is the input marked
sha256_hexdigest(s) == PyStr(<<"sha256:">> \o s.s)

\* the mutant hashes whatever phone number is present
PhoneNumberHash_Always(phoneNumber, isValidMobile) ==
  IF phoneNumber # None THEN sha256_hexdigest(phoneNumber) ELSE None

PhoneNumberHash(phoneNumber, isValidMobile) ==
  IF isValidMobile THEN sha256_hexdigest(phoneNumber) ELSE None

\* an exception leaves the loop with the item's dict as far as it was built
Raise(exception, processed_item) ==
  [err |-> exception, processed_item |-> processed_item]

\* item is the mapping of one element of data; year is date.today().year
process_item(item, year) ==
  LET p1 == [appointmentId |-> Get(item, "appointmentId"),
             phoneNumber |-> Get(item, "phoneNumber")]
      patient_details == GetDefault(item, "patientDetails", PyDict(EmptyMap))
  IN
  IF patient_details.t # "dict" THEN Raise("AttributeError", p1)
  ELSE
  LET p2 == p1 @@ [firstName |-> Get(patient_details.d, "firstName"),
                   lastName |-> Get(patient_details.d, "lastName"),
                   gender |-> TransformGender(Get(patient_details.d, "gender")),
                   DOB |-> Get(patient_details.d, "birthDate")]
      age == calculate_age(p2.DOB, year)
  IN
  IF age.raised # "" THEN Raise(age.raised, p2)
  ELSE
  LET p3 == p2 @@ [Age |-> age.value]
      consultation_data == GetDefault(item, "consultationData", PyDict(EmptyMap))
  IN
  IF consultation_data.t # "dict" THEN Raise("AttributeError", p3)
  ELSE
  LET medicines == GetDefault(consultation_data.d, "medicines", PyList(<<>>))
      p4 == p3 @@ [medicines |-> CoerceMedicines(medicines)]
      first == GetDefault(p4, "firstName", PyStr(<<>>))
      last == GetDefault(p4, "lastName", PyStr(<<>>))
  IN
  IF first.t # "str" \/ last.t # "str" THEN Raise("TypeError", p4)
  ELSE
  LET valid == is_valid_indian_phone_number(p4.phoneNumber)
      p5 == p4 @@ [fullName |-> PyStr(first.s \o <<" ">> \o last.s),
                   isValidMobile |-> PyBool(valid),
                   phoneNumberHash |-> PhoneNumberHash(p4.phoneNumber, valid)]
  IN [err |-> "", processed_item |-> p5]

(***************************************************************************)
(* pd.DataFrame(processed_data) and generate_aggregated_data               *)
(***************************************************************************)
\* the rows in order; the columns are the keys of the dicts, so that the frame
\* of an empty list has no column at all
DataFrame(rows) ==
  [columns |-> UNION {DOMAIN rows[i] : i \in DOMAIN rows}, rows |-> rows]

\* dataframe[name]: the Series of one column (the caller checks that it exists)
Column(frame, name) == [i \in DOMAIN frame.rows |-> frame.rows[i][name]]

RECURSIVE SumSeq(_)
SumSeq(s) == IF s = <<>> THEN 0 ELSE Head(s) + SumSeq(Tail(s))

\* the mutant counts the nulls too (value_counts(dropna=False))
ValueCounts_KeepNull(series) ==
  LET present == {series[i] : i \in DOMAIN series}
  IN [v \in present |-> Cardinality({i \in DOMAIN series : series[i] = v})]

\* Series.value_counts().to_dict(): dropna is True by default, a row that
\* holds None or NaN is in no group
ValueCounts(series) ==
  LET present == {series[i] : i \in DOMAIN series} \ {None, NaN}
  IN [v \in present |-> Cardinality({i \in DOMAIN series : series[i] = v})]

\* Series.explode() of a column of lists: one row per element, and one NaN row
\* for an empty list
RECURSIVE Explode(_)
Explode(series) ==
  IF series = <<>> THEN <<>>
  ELSE (IF Head(series).l = <<>> THEN <<NaN>> ELSE Head(series).l)
       \o Explode(Tail(series))

\* lines 130-144, applied to one row of the exploded column
count_medicines(meds) ==
  IF meds.t = "list" THEN Len(meds.l) ELSE 0

\* lambda medicine: medicine.get('IsActive', False); only a dict has .get
IsActiveOf(medicine) ==
  IF medicine.t = "dict"
  THEN [raised |-> "", value |-> GetDefault(medicine.d, "IsActive", PyBool(FALSE))]
  ELSE [raised |-> "AttributeError", value |-> None]

\* the value returned, or the exception raised while the dict is built
generate_aggregated_data(frame) ==
  IF "Age" \notin frame.columns
  THEN [raised |-> "KeyError", value |-> None]
  ELSE
  LET exploded == Explode(Column(frame, "medicines"))
      active == [i \in DOMAIN exploded |-> IsActiveOf(exploded[i])]
      isValidMobile == Column(frame, "isValidMobile")
  IN
  IF \E i \in DOMAIN active : active[i].raised # ""
  THEN [raised |-> "AttributeError", value |-> None]
  ELSE [raised |-> "",
        value |->
          [Age |-> ValueCounts(Column(frame, "Age")),
           gender |-> ValueCounts(Column(frame, "gender")),
           validPhoneNumbers |->
             Cardinality({i \in DOMAIN isValidMobile : isValidMobile[i] = PyBool(TRUE)}),
           appointments |-> Len(frame.rows),
           medicines |->
             SumSeq([i \in DOMAIN exploded |-> count_medicines(exploded[i])]),
           activeMedicines |->
             Cardinality({i \in DOMAIN active : active[i].value = PyBool(TRUE)})]]

(***************************************************************************)
(* Inputs                                                                  *)
(***************************************************************************)
MaxRun == 9
MaxYearLen == 3
MaxMedicines == 2
MaxRecords == 2

\* date.today().year, read from the clock of the machine
TodayYears == {2025, 2026}

\* a key that the JSON object does not have
Absent == [t |-> "absent"]

MkDict(fields) ==
  PyDict([k \in {f \in DOMAIN fields : fields[f] # Absent} |-> fields[k]])

RECURSIVE Repeat(_, _)
Repeat(c, n) == IF n = 0 THEN <<>> ELSE <<c>> \o Repeat(c, n - 1)

SeqsUpTo(S, n) == UNION {[1..k -> S] : k \in 0..n}

\* phone numbers: a prefix, a run of one digit, a suffix
PhonePrefixes ==
  {<<>>, <<"+">>, <<"9", "1">>, <<"+", "9", "1">>, <<"+", "9", "1", " ">>,
   <<"1", "9">>, <<"9">>, <<"9", "-", "1">>, <<"a", "9", "1">>, <<"0", "9", "1">>}

PhoneSuffixes == {<<>>, <<"x">>, <<" ", "5">>}

PhoneStrings ==
  {pre \o Repeat(d, k) \o suf :
     pre \in PhonePrefixes, d \in {"9", "0"}, k \in 0..MaxRun, suf \in PhoneSuffixes}
  \cup {<<"9", "8", "7", "6", "5", "4", "3", "2", "1", "0">>,
        <<"+", "9", "1", " ", "9", "8", "7", "6", "5", "4", "3", "2", "1", "0">>,
        <<"9", "1", "9", "9", "9", "9", "9", "9", "9", "9">>}

PhoneArgs == {None} \cup {PyStr(s) : s \in PhoneStrings}

\* birth dates: a year with something before and after it, then the rest
YearDigits == (SeqsUpTo({"1", "9", "0"}, MaxYearLen) \ {<<>>}) \cup {<<"1", "9", "9", "0">>}

YearBefore == {<<>>, <<"-">>, <<" ">>, <<"+">>, <<"_">>, <<"n", "o", "t">>, <<"+", " ">>}

YearAfter == {<<>>, <<" ">>, <<"_">>, <<"_", "5">>, <<"_", "_", "5">>, <<"/", "0", "5">>}

DateRest == {<<>>, <<"-">>, <<"-", "0", "5", "-", "0", "1">>, <<"-", "a", "-", "d", "a", "t", "e">>}

BirthDateStrings ==
  {b \o y \o a \o r : b \in YearBefore, y \in YearDigits \cup {<<>>}, a \in YearAfter, r \in DateRest}

BirthDateArgs == {None} \cup {PyStr(s) : s \in BirthDateStrings}

\* raw appointment records
Jane == PyStr(<<"J", "a", "n", "e">>)
Doe == PyStr(<<"D", "o", "e">>)
ValidPhone == PyStr(<<"9", "1", "9", "9", "9", "9", "9", "9", "9", "9">>)
BareTenDigits == PyStr(<<"9", "8", "7", "6", "5", "4", "3", "2", "1", "0">>)
Born1990 == PyStr(<<"1", "9", "9", "0", "-", "0", "5", "-", "0", "1">>)
Born1985 == PyStr(<<"1", "9", "8", "5", "-", "1", "2", "-", "3", "1">>)
NotADate == PyStr(<<"n", "o", "t", "-", "a", "-", "d", "a", "t", "e">>)
Scalar == PyStr(<<"x">>)

Active == PyDict([IsActive |-> PyBool(TRUE)])
Inactive == PyDict([IsActive |-> PyBool(FALSE)])
NoFlag == PyDict([name |-> Scalar])

MedicineEntries == {Active, Inactive, NoFlag, Scalar, PyList(<<Active, Inactive>>)}

MedicineLists == {PyList(l) : l \in SeqsUpTo(MedicineEntries, MaxMedicines)}

\* consultationData: missing, null, or a mapping whose medicines is missing,
\* null, a scalar, a mapping or a list
ConsultationShapes ==
  {Absent, None}
  \cup {MkDict([medicines |-> m]) :
          m \in {Absent, None, Scalar, PyInt(3), Active} \cup MedicineLists}

PatientShapes ==
  {Absent, None}
  \cup {MkDict([firstName |-> f, lastName |-> l, gender |-> g, birthDate |-> b]) :
          f \in {Absent, None, Jane},
          l \in {Absent, None, Doe},
          g \in {Absent, None, PyStr(<<"M">>), PyStr(<<"F">>), PyStr(<<"m">>), male},
          b \in {Absent, None, Born1990, NotADate}}

RawItems ==
  {MkDict([appointmentId |-> PyInt(1), phoneNumber |-> p,
           patientDetails |-> pd, consultationData |-> cd]) :
     p \in {Absent, None, ValidPhone, BareTenDigits},
     pd \in PatientShapes,
     cd \in ConsultationShapes}

\* the records the whole run is checked on
PipelinePatients ==
  {MkDict([firstName |-> Jane, lastName |-> Doe, gender |-> PyStr(<<"M">>), birthDate |-> Born1990]),
   MkDict([firstName |-> Jane, lastName |-> Doe, gender |-> PyStr(<<"F">>), birthDate |-> Born1985]),
   MkDict([firstName |-> Jane, lastName |-> Doe, gender |-> Absent, birthDate |-> None]),
   MkDict([firstName |-> Jane, lastName |-> Doe, gender |-> PyStr(<<"M">>), birthDate |-> NotADate]),
   MkDict([firstName |-> Jane, lastName |-> None, gender |-> PyStr(<<"F">>), birthDate |-> Born1990])}

PipelineConsultations ==
  {Absent,
   MkDict([medicines |-> PyList(<<>>)]),
   MkDict([medicines |-> PyList(<<Scalar>>)]),
   MkDict([medicines |-> PyList(<<PyList(<<Active, Inactive>>)>>)]),
   MkDict([medicines |-> PyList(<<Active>>)]),
   MkDict([medicines |-> PyList(<<Active, Inactive>>)]),
   MkDict([medicines |-> PyList(<<NoFlag>>)])}

PipelineItems ==
  {MkDict([appointmentId |-> PyInt(1), phoneNumber |-> p,
           patientDetails |-> pd, consultationData |-> cd]) :
     p \in {ValidPhone, BareTenDigits},
     pd \in PipelinePatients,
     cd \in PipelineConsultations}

(***************************************************************************)
(* The run of the script: the loop of process_json_data over the items,    *)
(* the DataFrame, generate_aggregated_data                                 *)
(***************************************************************************)
Idle ==
  /\ arg = None
  /\ ret = None

Init ==
  /\ pc = "loop"
  /\ Idle
  /\ err = ""
  /\ today \in TodayYears
  /\ processed_data = <<>>
  /\ dataframe = None
  /\ aggregated_data = None

\* lines 68-114: one more item of data goes through the body of the loop
ProcessItem ==
  /\ pc = "loop"
  /\ Len(processed_data) < MaxRecords
  /\ \E item \in PipelineItems :
       LET r == process_item(item.d, today)
       IN IF r.err = ""
          THEN /\ processed_data' = Append(processed_data, r.processed_item)
               /\ UNCHANGED <<pc, err>>
          ELSE /\ pc' = "raised"
               /\ err' = r.err
               /\ UNCHANGED processed_data
  /\ UNCHANGED <<arg, ret, today, dataframe, aggregated_data>>

\* lines 116-117 and 182: data is exhausted, the frame is built and returned
ReturnDataFrame ==
  /\ pc = "loop"
  /\ dataframe' = DataFrame(processed_data)
  /\ pc' = "frame"
  /\ UNCHANGED <<arg, ret, err, today, processed_data, aggregated_data>>

\* line 201
GenerateAggregatedData ==
  /\ pc = "frame"
  /\ LET r == generate_aggregated_data(dataframe)
     IN IF r.raised = ""
        THEN /\ aggregated_data' = r.value
             /\ pc' = "done"
             /\ UNCHANGED err
        ELSE /\ pc' = "raised"
             /\ err' = r.raised
             /\ UNCHANGED aggregated_data
  /\ UNCHANGED <<arg, ret, today, processed_data, dataframe>>

Next ==
  \/ ProcessItem
  \/ ReturnDataFrame
  \/ GenerateAggregatedData

Spec == Init /\ [][Next]_vars

(***************************************************************************)
(* One call of each function, on every input of its bounded set            *)
(***************************************************************************)
InitCall(args) ==
  /\ pc = "call"
  /\ arg \in args
  /\ ret = None
  /\ err = ""
  /\ today \in TodayYears
  /\ processed_data = <<>>
  /\ dataframe = None
  /\ aggregated_data = None

Return(value, exception) ==
  /\ pc' = "return"
  /\ ret' = value
  /\ err' = exception
  /\ UNCHANGED <<arg, today, processed_data, dataframe, aggregated_data>>

InitPhone == InitCall(PhoneArgs)

CallIsValidIndianPhoneNumber ==
  /\ pc = "call"
  /\ Return(PyBool(is_valid_indian_phone_number(arg)), "")

SpecPhone == InitPhone /\ [][CallIsValidIndianPhoneNumber]_vars

InitAge == InitCall(BirthDateArgs)

CallCalculateAge ==
  /\ pc = "call"
  /\ LET r == calculate_age(arg, today)
     IN Return(r.value, r.raised)

SpecAge == InitAge /\ [][CallCalculateAge]_vars

InitNormalize == InitCall(RawItems)

\* the body of the loop on one raw record; ret is the item's dict as built
CallProcessItem ==
  /\ pc = "call"
  /\ LET r == process_item(arg.d, today)
     IN Return(PyDict(r.processed_item), r.err)

SpecNormalize == InitNormalize /\ [][CallProcessItem]_vars

(***************************************************************************)
(* Properties                                                              *)
(***************************************************************************)
Returned == pc = "return"

\* the raw record's patientDetails and consultationData are missing or mappings
NestedWellFormed(item) ==
  /\ GetDefault(item.d, "patientDetails", PyDict(EmptyMap)).t = "dict"
  /\ GetDefault(item.d, "consultationData", PyDict(EmptyMap)).t = "dict"

SourcePatient(item) == GetDefault(item.d, "patientDetails", PyDict(EmptyMap))

SourceConsultation(item) == GetDefault(item.d, "consultationData", PyDict(EmptyMap))

\* C1: in every canonical record that the loop body produces, whatever the raw
\* phoneNumber (missing, null or a string), phoneNumberHash is non-null if and
\* only if isValidMobile is true.
C1_HashIffValidMobile ==
  (Returned /\ err = "") =>
    ((ret.d.phoneNumberHash # None) <=> (ret.d.isValidMobile = PyBool(TRUE)))

C1_Witness ==
  /\ Returned /\ err = ""
  /\ Get(arg.d, "phoneNumber") = ValidPhone
  /\ ret.d.isValidMobile = PyBool(TRUE)
  /\ ret.d.phoneNumberHash = sha256_hexdigest(ValidPhone)

\* C5: for every raw record, also when firstName or lastName is null or missing
\* or patientDetails is missing, the loop body does not fail and fullName is
\* firstName + ' ' + lastName with a null or missing part read as ''.
PartOrEmpty(v) == IF v.t = "str" THEN v.s ELSE <<>>

C5_FullNameNeverFails ==
  (Returned /\ NestedWellFormed(arg)) =>
    /\ err = ""
    /\ ret.d.fullName =
         PyStr(PartOrEmpty(Get(SourcePatient(arg).d, "firstName")) \o <<" ">>
               \o PartOrEmpty(Get(SourcePatient(arg).d, "lastName")))

\* C7: the medicines field of the record is a list for every shape of the
\* source consultationData.medicines (missing, null, scalar, mapping, list) and
\* when consultationData is missing: the source list itself when the source is
\* a list, the empty list otherwise.
SourceMedicines(item) == GetDefault(SourceConsultation(item).d, "medicines", Absent)

C7_MedicinesAlwaysList ==
  Returned =>
    /\ NestedWellFormed(arg) => "medicines" \in DOMAIN ret.d
    /\ "medicines" \in DOMAIN ret.d =>
         /\ ret.d.medicines.t = "list"
         /\ ret.d.medicines =
              (IF SourceMedicines(arg).t = "list" THEN SourceMedicines(arg) ELSE PyList(<<>>))

C7_Witness ==
  /\ Returned /\ err = ""
  /\ SourceMedicines(arg) = Scalar
  /\ ret.d.medicines = PyList(<<>>)

\* C10: the gender of every record is "male", "female" or "others": "M" gives
\* "male", "F" gives "female", anything else (null, missing, another string,
\* patientDetails missing) gives "others", and the mapping does not fail.
SourceGender(item) == Get(SourcePatient(item).d, "gender")

C10_GenderTotal ==
  Returned =>
    /\ SourcePatient(arg).t = "dict" => "gender" \in DOMAIN ret.d
    /\ "gender" \in DOMAIN ret.d =>
         /\ ret.d.gender \in {male, female, others}
         /\ (SourceGender(arg) = PyStr(<<"M">>)) <=> (ret.d.gender = male)
         /\ (SourceGender(arg) = PyStr(<<"F">>)) <=> (ret.d.gender = female)

C10_Witness ==
  /\ Returned
  /\ SourcePatient(arg).t = "dict"
  /\ SourceGender(arg) = PyStr(<<"m">>)
  /\ ret.d.gender = others

\* C8: is_valid_indian_phone_number is false for None, and for a string it is
\* true exactly when the digits of the string, in order, are ten and begin
\* with 9, 1; it never raises. "9876543210" and "+91 9876543210" are invalid,
\* "9199999999" is valid.
IsDigitChar(c) == c \in Digits

TenDigitsFrom91(s) ==
  LET d == SelectSeq(s, IsDigitChar)
  IN Len(d) = 10 /\ d[1] = "9" /\ d[2] = "1"

SegmentEnd(s) ==
  CHOOSE k \in 1..(Len(s) + 1) :
    /\ k = Len(s) + 1 \/ s[k] = "-"
    /\ \A j \in 1..(k - 1) : s[j] # "-"

YearText(s) ==
  LET seg == SubSeq(s, 1, SegmentEnd(s) - 1)
      inked == {i \in 1..Len(seg) : seg[i] # " "}
      lo == CHOOSE i \in inked : \A j \in inked : i <= j
      hi == CHOOSE i \in inked : \A j \in inked : j <= i
      trimmed == IF inked = {} THEN <<>> ELSE SubSeq(seg, lo, hi)
  IN IF trimmed # <<>> /\ trimmed[1] = "+" THEN SubSeq(trimmed, 2, Len(trimmed)) ELSE trimmed

IsIntegerText(u) ==
  /\ u # <<>>
  /\ \A i \in 1..Len(u) : u[i] \in Digits \cup {"_"}
  /\ u[1] \in Digits
  /\ u[Len(u)] \in Digits
  /\ \A i \in 1..(Len(u) - 1) : ~(u[i] = "_" /\ u[i + 1] = "_")

RECURSIVE Pow10(_)
Pow10(n) == IF n = 0 THEN 1 ELSE 10 * Pow10(n - 1)

IntegerValue(u) ==
  LET d == SelectSeq(u, IsDigitChar)
  IN SumSeq([i \in 1..Len(d) |-> DigitValue(d[i]) * Pow10(Len(d) - i)])

C9_AgeOrNone ==
  Returned =>
    /\ err = ""
    /\ arg = None => ret = None
    /\ arg # None =>
         ret = (IF IsIntegerText(YearText(arg.s))
                THEN PyInt(today - IntegerValue(YearText(arg.s)))
                ELSE None)
    /\ arg \in {NotADate, PyStr(<<>>), PyStr(<<"1", "9", "9", "0", "/", "0", "5">>)} => ret = None
    /\ arg = Born1990 => ret = PyInt(today - 1990)

C9_Witness ==
  /\ Returned
  /\ arg = NotADate
  /\ ret = None
  /\ err = ""

Aggregated == pc = "done"

\* the call of generate_aggregated_data is over: it returned or it raised
AggregateOver == dataframe # None /\ pc \in {"done", "raised"}

\* all the medicine entries of the records, in order
RECURSIVE Entries(_)
Entries(rows) ==
  IF rows = <<>> THEN <<>> ELSE Head(rows).medicines.l \o Entries(Tail(rows))

\* C2: the 'medicines' total that generate_aggregated_data returns is the
\* number of medicine entries of all the records, the sum of the lengths of
\* their medicines lists, an entry counting 1 whatever its shape.
C2_MedicinesCountsEntries ==
  Aggregated => aggregated_data.medicines = Len(Entries(processed_data))

\* C3: generate_aggregated_data does not raise while it computes
\* 'activeMedicines' when medicines lists are empty, hold scalars or hold
\* mappings without IsActive; such an entry counts 0 and the result is the
\* number of mappings whose IsActive is true.
ActiveEntries(rows) ==
  LET e == Entries(rows)
  IN {i \in DOMAIN e : e[i].t = "dict" /\ Get(e[i].d, "IsActive") = PyBool(TRUE)}

C3_ActiveMedicinesNeverRaises ==
  (AggregateOver /\ processed_data # <<>>) =>
    /\ err = ""
    /\ aggregated_data.activeMedicines = Cardinality(ActiveEntries(processed_data))

\* C4: the aggregate of an empty collection of records is not an error: Age
\* and gender are empty and the four counts are 0.
C4_EmptyAggregate ==
  (AggregateOver /\ processed_data = <<>>) =>
    /\ err = ""
    /\ aggregated_data =
         [Age |-> EmptyMap, gender |-> EmptyMap, validPhoneNumbers |-> 0,
          appointments |-> 0, medicines |-> 0, activeMedicines |-> 0]

\* C6 as stated: null is a group key of 'Age' like any other, every record is
\* in exactly one Age group, and the Age counts add up to 'appointments'.
RECURSIVE SumCounts(_, _)
SumCounts(f, keys) ==
  IF keys = {} THEN 0
  ELSE LET k == CHOOSE k \in keys : TRUE
       IN f[k] + SumCounts(f, keys \ {k})

RowsOfAge(age) == {i \in DOMAIN processed_data : processed_data[i].Age = age}

C6_NullAgeIsAGroup ==
  Aggregated =>
    /\ \A i \in DOMAIN processed_data : processed_data[i].Age \in DOMAIN aggregated_data.Age
    /\ SumCounts(aggregated_data.Age, DOMAIN aggregated_data.Age) = aggregated_data.appointments

\* C6, amended: in the 'Age' mapping of the aggregate that is returned the
\* groups are the non-null ages: a record whose Age is not null is counted in
\* the group of its Age and in no other, a record whose Age is null is in no
\* group, and the Age counts add up to the number of records whose Age is not
\* null.
C6_AgeCountsNonNull ==
  Aggregated =>
    /\ DOMAIN aggregated_data.Age =
         {processed_data[i].Age : i \in DOMAIN processed_data} \ {None}
    /\ \A a \in DOMAIN aggregated_data.Age :
         aggregated_data.Age[a] = Cardinality(RowsOfAge(a))
    /\ SumCounts(aggregated_data.Age, DOMAIN aggregated_data.Age) =
         aggregated_data.appointments - Cardinality(RowsOfAge(None))

C6_Witness ==
  /\ Aggregated
  /\ RowsOfAge(None) # {}
  /\ DOMAIN aggregated_data.Age # {}

====
